---- MODULE Spec2Model ----
(***************************************************************************)
(* Model of src/settings.py: one Settings object over one backing file.    *)
(*                                                                         *)
(* State: the object's fields (allSettings, registered, __strictControl),  *)
(* the backing file on disk, and `last`, the call most recently made on    *)
(* the object with what it returned or raised.                             *)
(*                                                                         *)
(* Python values are named by strings ("None", "False", "0", ...), JSON    *)
(* tokens by other strings ("null", "false", "0", ...); json.dump and      *)
(* json.load convert between the two.  The text of the file is a sequence  *)
(* of JSON documents written one after the other: the empty sequence is a  *)
(* zero-length file, one object document is a valid settings file.         *)
(***************************************************************************)
EXTENDS Naturals, Sequences, FiniteSets

VARIABLES allSettings, registered, strictControl, file, last,
          defaultSettingsFilename, defaultQuickSettingsFilename,
          defaultSettingsDirectory, _globalSettings, _globalQuickSettings,
          created, pc, lockOwner, lockCount

(* The fields of the Settings object and its file. *)
storeVars == <<allSettings, registered, strictControl, file>>

(* The module-level variables, the two singletons and the number of        *)
(* Settings objects the accessors have constructed.                         *)
moduleVars == <<defaultSettingsFilename, defaultQuickSettingsFilename,
                defaultSettingsDirectory, _globalSettings, _globalQuickSettings,
                created>>

(* self.lock and the position of each thread that calls the object. *)
lockVars == <<pc, lockOwner, lockCount>>

vars == <<allSettings, registered, strictControl, file, last,
          defaultSettingsFilename, defaultQuickSettingsFilename,
          defaultSettingsDirectory, _globalSettings, _globalQuickSettings,
          created, pc, lockOwner, lockCount>>

(* Setting names used as inputs: the two names of the spec's merge example. *)
Names == {"a", "plugin_x"}

(* Number of Python values drawn as inputs. *)
NumValues == 2

AllValues == <<"None", "False", "0", "True", "1">>

Values == {AllValues[i] : i \in 1..NumValues}

(* Python's == on the values above: bool is a subclass of int. *)
PyEq(x, y) ==
    \/ x = y
    \/ {x, y} = {"False", "0"}
    \/ {x, y} = {"True", "1"}

(* len(key) for the names above. *)
NameLen(key) == IF key = "a" THEN 1 ELSE 8

EmptyDict == [k \in {} |-> "None"]

DictsOver(S) == UNION {[D -> S] : D \in SUBSET Names}

Without(d, name) == [k \in (DOMAIN d) \ {name} |-> d[k]]

With(d, name, value) == [k \in (DOMAIN d) \cup {name} |-> IF k = name THEN value ELSE d[k]]

NoRet == "-"

NoName == "-"

(***************************************************************************)
(* JSON codec.                                                             *)
(***************************************************************************)
JsonEncode(v) ==
    CASE v = "None"  -> "null"
      [] v = "False" -> "false"
      [] v = "True"  -> "true"
      [] OTHER       -> v

(* JsonDecode with the literals null, false and true left as read. *)
JsonDecodeLiteral(t) == t

JsonDecode(t) ==
    CASE t = "null"  -> "None"
      [] t = "false" -> "False"
      [] t = "true"  -> "True"
      [] OTHER       -> t

JsonTokens == {JsonEncode(v) : v \in Values}

(* JsonDump that leaves out the keys whose value is None. *)
JsonDumpSkipNone(settings) ==
    [kind |-> "object",
     obj |-> [k \in {n \in DOMAIN settings : settings[n] # "None"} |-> JsonEncode(settings[k])]]

(* json.dump(settings, f, ...): the document written for a dict. *)
JsonDump(settings) ==
    [kind |-> "object", obj |-> [k \in DOMAIN settings |-> JsonEncode(settings[k])]]

GarbageDoc == [kind |-> "garbage", obj |-> EmptyDict]

ArrayDoc == [kind |-> "array", obj |-> EmptyDict]

(* json.load(f) on a text: ValueError, a non-dict value, or a dict. *)
JsonLoad(text) ==
    IF Len(text) # 1 \/ text[1].kind = "garbage"
    THEN [err |-> TRUE, isdict |-> FALSE, dict |-> EmptyDict]
    ELSE IF text[1].kind = "array"
    THEN [err |-> FALSE, isdict |-> FALSE, dict |-> EmptyDict]
    ELSE [err |-> FALSE, isdict |-> TRUE,
          dict |-> [k \in DOMAIN text[1].obj |-> JsonDecode(text[1].obj[k])]]

(***************************************************************************)
(* The backing file.                                                       *)
(***************************************************************************)
NoFile == [exists |-> FALSE, text |-> <<>>]

FileOf(text) == [exists |-> TRUE, text |-> text]

InitFiles ==
    {NoFile, FileOf(<<>>), FileOf(<<GarbageDoc>>), FileOf(<<ArrayDoc>>)}
    \cup {FileOf(<<[kind |-> "object", obj |-> o]>>) : o \in DictsOver(JsonTokens)}

(* OpenTruncate with the file opened for update without truncation ('r+t'). *)
OpenKeep(f) == IF f.exists THEN f ELSE FileOf(<<>>)

(* open(filename, 'w+t'): creates the file or truncates it to zero length. *)
OpenTruncate(f) == FileOf(<<>>)

(* f.write at the current position, which is the end of what the file holds. *)
WriteDoc(f, doc) == FileOf(f.text \o <<doc>>)

(***************************************************************************)
(* Results of the methods, as functions of the state they run in.          *)
(* fault names the file-system call that fails in this run ("none": no     *)
(* call fails).                                                            *)
(***************************************************************************)

(* The values of the module variable warningOutputRoutine: None (its       *)
(* initial value), a callable that returns, a callable that raises.        *)
WarningRoutines == {"None", "returns", "raises"}

Restrict(d, keys) == [k \in (DOMAIN d) \cap keys |-> d[k]]

(* LoadResult that leaves out of allSettings the keys a strict store has   *)
(* not registered.                                                         *)
LoadRegisteredOnly(f, reg, strict, warningOutputRoutine, before, fault) ==
    IF ~f.exists \/ (fault # "open" /\ Len(f.text) = 0)
    THEN [outcome |-> "ok", allSettings |-> EmptyDict]
    ELSE IF fault = "open" \/ JsonLoad(f.text).err \/ ~JsonLoad(f.text).isdict
    THEN [outcome |-> "SettingsError", allSettings |-> EmptyDict]
    ELSE [outcome |-> "ok",
          allSettings |-> IF strict THEN Restrict(JsonLoad(f.text).dict, DOMAIN reg)
                          ELSE JsonLoad(f.text).dict]

(* Settings.load.  The loop over settings.items() calls                    *)
(* warningOutputRoutine for a key a strict store has not registered before *)
(* it stores the key; when the routine raises, the keys stored so far stay *)
(* in allSettings.  `before` is the set of keys that come before that key  *)
(* in the file (the order of the keys of the text is not modelled).        *)
LoadResult(f, reg, strict, warningOutputRoutine, before, fault) ==
    IF ~f.exists
    THEN [outcome |-> "ok", allSettings |-> EmptyDict]
    ELSE IF fault = "open"
    THEN [outcome |-> "SettingsError", allSettings |-> EmptyDict]
    ELSE IF Len(f.text) = 0
    THEN [outcome |-> "ok", allSettings |-> EmptyDict]
    ELSE LET parsed == JsonLoad(f.text)
             unregistered == IF strict THEN (DOMAIN parsed.dict) \ (DOMAIN reg) ELSE {}
         IN  IF parsed.err \/ ~parsed.isdict
             THEN [outcome |-> "SettingsError", allSettings |-> EmptyDict]
             ELSE IF unregistered # {} /\ warningOutputRoutine = "raises"
             THEN [outcome |-> "SettingsError",
                   allSettings |-> Restrict(parsed.dict, before \ unregistered)]
             ELSE [outcome |-> "ok", allSettings |-> parsed.dict]

(* The loop `for key, value in saved_settings:` of save iterates the keys    *)
(* of the dict and unpacks each key string into two names, which raises     *)
(* ValueError for a key that is not two characters long.                    *)
MergeRaises(saved) == \E key \in DOMAIN saved : NameLen(key) # 2

(* SaveResult that reads the old file before truncating it and merges its   *)
(* keys into `settings`, which is the allSettings object itself.            *)
SaveMergingAlias(f, settings, reg, strict, keep_unregistered, fault) ==
    LET saved == JsonLoad(f.text)
        kept == IF (~strict \/ keep_unregistered) /\ f.exists /\ ~saved.err /\ saved.isdict
                THEN {k \in DOMAIN saved.dict :
                        IF strict THEN k \notin DOMAIN reg ELSE k \notin DOMAIN settings}
                ELSE {}
        merged == [k \in (DOMAIN settings) \cup kept |->
                     IF k \in kept THEN saved.dict[k] ELSE settings[k]]
    IN  IF fault # "none"
        THEN [outcome |-> "SettingsError", file |-> f, allSettings |-> settings]
        ELSE [outcome |-> "ok", file |-> FileOf(<<JsonDump(merged)>>), allSettings |-> merged]

(* Settings.save *)
SaveResult(f, settings, reg, strict, keep_unregistered, fault) ==
    IF fault \in {"mkdir", "open"}
    THEN [outcome |-> "SettingsError", file |-> f, allSettings |-> settings]
    ELSE LET opened == OpenTruncate(f)
             merging == ~strict \/ keep_unregistered
             saved == JsonLoad(opened.text)
         IN  IF merging /\ ~saved.err /\ saved.isdict /\ MergeRaises(saved.dict)
             THEN [outcome |-> "SettingsError", file |-> opened, allSettings |-> settings]
             ELSE IF fault = "write"
             THEN [outcome |-> "SettingsError", file |-> opened, allSettings |-> settings]
             ELSE IF fault = "writePartial"
             THEN [outcome |-> "SettingsError", file |-> WriteDoc(opened, GarbageDoc),
                   allSettings |-> settings]
             ELSE [outcome |-> "ok", file |-> WriteDoc(opened, JsonDump(settings)),
                   allSettings |-> settings]

(* ResetResult that clears allSettings and leaves the file in place. *)
ResetMemoryOnly(f, settings, fault) ==
    [outcome |-> "ok", file |-> f, allSettings |-> EmptyDict]

(* Settings.reset *)
ResetResult(f, settings, fault) ==
    IF f.exists /\ fault = "remove"
    THEN [outcome |-> "OSError", file |-> f, allSettings |-> settings]
    ELSE [outcome |-> "ok", file |-> NoFile, allSettings |-> EmptyDict]

(* ResetSettingResult without the strict-mode check. *)
ResetSettingUnchecked(settings, reg, strict, name) ==
    IF name \notin DOMAIN settings
    THEN [outcome |-> "KeyError", allSettings |-> settings]
    ELSE [outcome |-> "ok", allSettings |-> Without(settings, name)]

(* ResetSettingResult that stores None for the name instead of deleting it. *)
ResetSettingToNone(settings, reg, strict, name) ==
    IF strict /\ name \notin DOMAIN reg
    THEN [outcome |-> "SettingsError", allSettings |-> settings]
    ELSE IF name \notin DOMAIN settings
    THEN [outcome |-> "KeyError", allSettings |-> settings]
    ELSE [outcome |-> "ok", allSettings |-> With(settings, name, "None")]

(* Settings.resetSetting *)
ResetSettingResult(settings, reg, strict, name) ==
    IF strict /\ name \notin DOMAIN reg
    THEN [outcome |-> "SettingsError", allSettings |-> settings]
    ELSE IF name \notin DOMAIN settings
    THEN [outcome |-> "KeyError", allSettings |-> settings]
    ELSE [outcome |-> "ok", allSettings |-> Without(settings, name)]

(* GetResult with the strict-mode check made before the registered default. *)
GetStrictFirst(settings, reg, strict, name) ==
    IF name \in DOMAIN settings
    THEN [outcome |-> "ok", ret |-> settings[name]]
    ELSE IF strict
    THEN [outcome |-> "SettingsError", ret |-> NoRet]
    ELSE [outcome |-> "ok", ret |-> "None"]

(* Settings.get *)
GetResult(settings, reg, strict, name) ==
    IF name \in DOMAIN settings
    THEN [outcome |-> "ok", ret |-> settings[name]]
    ELSE IF name \in DOMAIN reg
    THEN [outcome |-> "ok", ret |-> reg[name]]
    ELSE IF strict
    THEN [outcome |-> "SettingsError", ret |-> NoRet]
    ELSE [outcome |-> "ok", ret |-> "None"]

(* Settings.defaultValue *)
DefaultValueResult(reg, strict, name) ==
    IF name \in DOMAIN reg
    THEN [outcome |-> "ok", ret |-> reg[name]]
    ELSE IF strict
    THEN [outcome |-> "SettingsError", ret |-> NoRet]
    ELSE [outcome |-> "ok", ret |-> "None"]

(* SetResult that stores every value, a value equal to the default included. *)
SetNoCollapse(settings, reg, strict, name, value) ==
    IF strict /\ name \notin DOMAIN reg
    THEN [outcome |-> "SettingsError", allSettings |-> settings]
    ELSE [outcome |-> "ok", allSettings |-> With(settings, name, value)]

(* Settings.set *)
SetResult(settings, reg, strict, name, value) ==
    IF strict /\ name \notin DOMAIN reg
    THEN [outcome |-> "SettingsError", allSettings |-> settings]
    ELSE IF name \in DOMAIN reg /\ PyEq(reg[name], value)
    THEN IF name \in DOMAIN settings
         THEN [outcome |-> "ok", allSettings |-> Without(settings, name)]
         ELSE [outcome |-> "KeyError", allSettings |-> settings]
    ELSE [outcome |-> "ok", allSettings |-> With(settings, name, value)]

(* RegisterResult that replaces the default on a conflicting registration. *)
RegisterOverwrite(reg, name, default_value) ==
    [outcome |-> "ok", registered |-> With(reg, name, default_value)]

(* Settings.register *)
RegisterResult(reg, name, default_value) ==
    IF name \notin DOMAIN reg
    THEN [outcome |-> "ok", registered |-> With(reg, name, default_value)]
    ELSE IF ~PyEq(reg[name], default_value)
    THEN [outcome |-> "SettingsError", registered |-> reg]
    ELSE [outcome |-> "ok", registered |-> reg]

(***************************************************************************)
(* The state machine.                                                      *)
(***************************************************************************)
Call(op, name, value, keep, outcome, ret, nth) ==
    [op |-> op, name |-> name, value |-> value, keep |-> keep,
     outcome |-> outcome, ret |-> ret, nth |-> nth]

(* The threads that call the object. *)
NumThreads == 2

Threads == 1..NumThreads

(* No thread owns the lock. *)
NoThread == 0

(* A file name or a directory, as the pair of the parts it is built from. *)
EmptyPath == <<"", "">>

(* No Settings object (None). *)
NoObject == [id |-> "None", filename |-> EmptyPath, strict |-> FALSE]

(* The module as imported (lines 100-103, 274-275), no thread in a call.   *)
InitModule ==
    /\ defaultSettingsFilename = EmptyPath
    /\ defaultQuickSettingsFilename = EmptyPath
    /\ defaultSettingsDirectory = EmptyPath
    /\ _globalSettings = NoObject
    /\ _globalQuickSettings = NoObject
    /\ created = 0

InitLock ==
    /\ pc = [t \in Threads |-> "idle"]
    /\ lockOwner = NoThread
    /\ lockCount = 0

(* Settings.__init__, over a file some component may have written before. *)
Init ==
    /\ allSettings = EmptyDict
    /\ registered = EmptyDict
    /\ strictControl \in BOOLEAN
    /\ file \in InitFiles
    /\ last = Call("init", NoName, NoRet, TRUE, "ok", NoRet, 1)
    /\ InitModule
    /\ InitLock

Load ==
    \E fault \in {"none", "open"}, warningOutputRoutine \in WarningRoutines,
       before \in SUBSET Names :
        LET r == LoadResult(file, registered, strictControl, warningOutputRoutine,
                            before, fault)
        IN  /\ allSettings' = r.allSettings
            /\ last' = Call("load", NoName, NoRet, TRUE, r.outcome, NoRet, 1)
            /\ UNCHANGED <<registered, strictControl, file, moduleVars, lockVars>>

Save ==
    \E keep_unregistered \in BOOLEAN,
       fault \in {"none", "mkdir", "open", "write", "writePartial"} :
        LET r == SaveResult(file, allSettings, registered, strictControl,
                            keep_unregistered, fault)
            again == last.op = "save" /\ last.outcome = "ok" /\ r.outcome = "ok"
        IN  /\ file' = r.file
            /\ allSettings' = r.allSettings
            /\ last' = Call("save", NoName, NoRet, keep_unregistered, r.outcome, NoRet,
                            IF again THEN 2 ELSE 1)
            /\ UNCHANGED <<registered, strictControl, moduleVars, lockVars>>

Reset ==
    \E fault \in {"none", "remove"} :
        LET r == ResetResult(file, allSettings, fault)
        IN  /\ file' = r.file
            /\ allSettings' = r.allSettings
            /\ last' = Call("reset", NoName, NoRet, TRUE, r.outcome, NoRet, 1)
            /\ UNCHANGED <<registered, strictControl, moduleVars, lockVars>>

ResetSetting ==
    \E setting_name \in Names :
        LET r == ResetSettingResult(allSettings, registered, strictControl, setting_name)
        IN  /\ allSettings' = r.allSettings
            /\ last' = Call("resetSetting", setting_name, NoRet, TRUE, r.outcome, NoRet, 1)
            /\ UNCHANGED <<registered, strictControl, file, moduleVars, lockVars>>

Get ==
    \E setting_name \in Names :
        LET r == GetResult(allSettings, registered, strictControl, setting_name)
        IN  /\ last' = Call("get", setting_name, NoRet, TRUE, r.outcome, r.ret, 1)
            /\ UNCHANGED <<allSettings, registered, strictControl, file, moduleVars, lockVars>>

DefaultValue ==
    \E setting_name \in Names :
        LET r == DefaultValueResult(registered, strictControl, setting_name)
        IN  /\ last' = Call("defaultValue", setting_name, NoRet, TRUE, r.outcome, r.ret, 1)
            /\ UNCHANGED <<allSettings, registered, strictControl, file, moduleVars, lockVars>>

Set ==
    \E setting_name \in Names, value \in Values :
        LET r == SetResult(allSettings, registered, strictControl, setting_name, value)
        IN  /\ allSettings' = r.allSettings
            /\ last' = Call("set", setting_name, value, TRUE, r.outcome, NoRet, 1)
            /\ UNCHANGED <<registered, strictControl, file, moduleVars, lockVars>>

Register ==
    \E setting_name \in Names, default_value \in Values :
        LET r == RegisterResult(registered, setting_name, default_value)
        IN  /\ registered' = r.registered
            /\ last' = Call("register", setting_name, default_value, TRUE, r.outcome, NoRet, 1)
            /\ UNCHANGED <<allSettings, strictControl, file, moduleVars, lockVars>>

Next ==
    \/ Load
    \/ Save
    \/ Reset
    \/ ResetSetting
    \/ Get
    \/ DefaultValue
    \/ Set
    \/ Register

Spec == Init /\ [][Next]_vars

TypeOK ==
    /\ allSettings \in DictsOver(Values)
    /\ registered \in DictsOver(Values)
    /\ strictControl \in BOOLEAN
    /\ file.exists \in BOOLEAN
    /\ Len(file.text) <= 1

(***************************************************************************)
(* The module: its configuration variables and the two singletons.         *)
(***************************************************************************)

(* The application name of the module docstring's example. *)
Apps == {"MyApplication"}

Platforms == {"win", "darwin", "linux"}

(* defaultConfigure: the three values it derives from app_name. *)
ConfFilename(app_name) == <<app_name, ".conf">>

QuickFilename(app_name) == <<app_name, ".qconf">>

ConfDirectory(platform, app_name) ==
    IF platform = "win" THEN <<"~/Application Data/", app_name>>
    ELSE IF platform = "darwin" THEN <<"~/Library/Application Support/", app_name>>
    ELSE <<"~/.", app_name>>

(* An absolute file name. *)
AbsFilename == <<"/", "abs.conf">>

(* os.path.isabs *)
IsAbs(name) == name[1] = "/"

(* The values an application assigns to the file name variables and to     *)
(* the directory variable.                                                 *)
AssignableFilenames ==
    {EmptyPath, AbsFilename} \cup {ConfFilename(a) : a \in Apps}
        \cup {QuickFilename(a) : a \in Apps}

AssignableDirectories ==
    {EmptyPath} \cup {ConfDirectory(pl, a) : pl \in Platforms, a \in Apps}

(* Settings.filename of an object constructed with `name`. *)
FilenameOf(name, directory) ==
    IF IsAbs(name) THEN [dir |-> EmptyPath, name |-> name]
    ELSE [dir |-> directory, name |-> name]

(* The identity of the Settings object constructed n-th. *)
ObjectId(n) ==
    IF n = 1 THEN "Settings#1" ELSE IF n = 2 THEN "Settings#2" ELSE "Settings#later"

(* Settings(filename, strict_control): the object constructed n-th. *)
NewSettings(name, strict, n) ==
    [id |-> ObjectId(n), filename |-> name, strict |-> strict]

(* AccessorResult that constructs a Settings object on every call. *)
AccessorAlwaysConstructs(current, name, strict, n) ==
    [object |-> NewSettings(name, strict, n + 1), created |-> n + 1]

(* globalSettings / globalQuickSettings: the object returned and the       *)
(* number of objects constructed so far.                                   *)
AccessorResult(current, name, strict, n) ==
    IF current = NoObject
    THEN [object |-> NewSettings(name, strict, n + 1), created |-> n + 1]
    ELSE [object |-> current, created |-> n]

AssignDefaultSettingsFilename ==
    \E name \in AssignableFilenames :
        /\ defaultSettingsFilename' = name
        /\ last' = Call("assign", NoName, NoRet, TRUE, "ok", NoRet, 1)
        /\ UNCHANGED <<defaultQuickSettingsFilename, defaultSettingsDirectory,
                       _globalSettings, _globalQuickSettings, created,
                       storeVars, lockVars>>

AssignDefaultQuickSettingsFilename ==
    \E name \in AssignableFilenames :
        /\ defaultQuickSettingsFilename' = name
        /\ last' = Call("assign", NoName, NoRet, TRUE, "ok", NoRet, 1)
        /\ UNCHANGED <<defaultSettingsFilename, defaultSettingsDirectory,
                       _globalSettings, _globalQuickSettings, created,
                       storeVars, lockVars>>

AssignDefaultSettingsDirectory ==
    \E directory \in AssignableDirectories :
        /\ defaultSettingsDirectory' = directory
        /\ last' = Call("assign", NoName, NoRet, TRUE, "ok", NoRet, 1)
        /\ UNCHANGED <<defaultSettingsFilename, defaultQuickSettingsFilename,
                       _globalSettings, _globalQuickSettings, created,
                       storeVars, lockVars>>

DefaultConfigure ==
    \E app_name \in Apps, platform \in Platforms :
        /\ defaultSettingsFilename' = ConfFilename(app_name)
        /\ defaultQuickSettingsFilename' = QuickFilename(app_name)
        /\ defaultSettingsDirectory' = ConfDirectory(platform, app_name)
        /\ last' = Call("defaultConfigure", NoName, NoRet, TRUE, "ok", NoRet, 1)
        /\ UNCHANGED <<_globalSettings, _globalQuickSettings, created,
                       storeVars, lockVars>>

GlobalSettings ==
    LET r == AccessorResult(_globalSettings, defaultSettingsFilename, TRUE, created)
    IN  /\ _globalSettings' = r.object
        /\ created' = r.created
        /\ last' = Call("globalSettings", NoName, NoRet, TRUE, "ok", r.object.id, 1)
        /\ UNCHANGED <<defaultSettingsFilename, defaultQuickSettingsFilename,
                       defaultSettingsDirectory, _globalQuickSettings,
                       storeVars, lockVars>>

GlobalQuickSettings ==
    LET r == AccessorResult(_globalQuickSettings, defaultQuickSettingsFilename, FALSE,
                            created)
    IN  /\ _globalQuickSettings' = r.object
        /\ created' = r.created
        /\ last' = Call("globalQuickSettings", NoName, NoRet, TRUE, "ok", r.object.id, 1)
        /\ UNCHANGED <<defaultSettingsFilename, defaultQuickSettingsFilename,
                       defaultSettingsDirectory, _globalSettings,
                       storeVars, lockVars>>

NextModule ==
    \/ AssignDefaultSettingsFilename
    \/ AssignDefaultQuickSettingsFilename
    \/ AssignDefaultSettingsDirectory
    \/ DefaultConfigure
    \/ GlobalSettings
    \/ GlobalQuickSettings

(* The module from its import on; no Settings object of the other          *)
(* specification is in use.                                                *)
InitModuleOnly == Init /\ ~strictControl /\ ~file.exists

SpecModule == InitModuleOnly /\ [][NextModule]_vars

(***************************************************************************)
(* Threads calling the methods of one Settings object.  Every method body  *)
(* is `with self.lock:` around the statements of the method: the thread    *)
(* acquires the re-entrant lock, runs the body, and the with statement     *)
(* releases the lock when the body returns and when it raises.             *)
(***************************************************************************)

(* RLock.acquire with every thread let through. *)
LockAlwaysAvailable(t) == TRUE

(* RLock.acquire does not block: the lock is free or owned by the caller. *)
LockAvailable(t) == lockOwner \in {NoThread, t}

(* What the body of a method called now does to the object and its file,  *)
(* and how it ends, for every method and every argument.                   *)
BodyResults ==
    {[allSettings |-> r.allSettings, registered |-> registered, file |-> file,
      outcome |-> r.outcome] :
        r \in {LoadResult(file, registered, strictControl, w, b, f) :
                    w \in WarningRoutines, b \in SUBSET Names, f \in {"none", "open"}}}
    \cup
    {[allSettings |-> r.allSettings, registered |-> registered, file |-> r.file,
      outcome |-> r.outcome] :
        r \in {SaveResult(file, allSettings, registered, strictControl, k, f) :
                    k \in BOOLEAN,
                    f \in {"none", "mkdir", "open", "write", "writePartial"}}
               \cup {ResetResult(file, allSettings, f) : f \in {"none", "remove"}}}
    \cup
    {[allSettings |-> r.allSettings, registered |-> registered, file |-> file,
      outcome |-> r.outcome] :
        r \in {ResetSettingResult(allSettings, registered, strictControl, n) : n \in Names}
               \cup {SetResult(allSettings, registered, strictControl, n, v) :
                        n \in Names, v \in Values}}
    \cup
    {[allSettings |-> allSettings, registered |-> registered, file |-> file,
      outcome |-> r.outcome] :
        r \in {GetResult(allSettings, registered, strictControl, n) : n \in Names}
               \cup {DefaultValueResult(registered, strictControl, n) : n \in Names}}
    \cup
    {[allSettings |-> allSettings, registered |-> r.registered, file |-> file,
      outcome |-> r.outcome] :
        r \in {RegisterResult(registered, n, v) : n \in Names, v \in Values}}

(* The thread calls a method and reaches `with self.lock:`. *)
CallMethod(t) ==
    /\ pc[t] = "idle"
    /\ pc' = [pc EXCEPT ![t] = "call"]
    /\ UNCHANGED <<storeVars, last, moduleVars, lockOwner, lockCount>>

(* self.lock.__enter__ *)
Acquire(t) ==
    /\ pc[t] = "call"
    /\ LockAvailable(t)
    /\ lockOwner' = t
    /\ lockCount' = lockCount + 1
    /\ pc' = [pc EXCEPT ![t] = "body"]
    /\ UNCHANGED <<storeVars, last, moduleVars>>

(* The statements under `with self.lock:`. *)
Body(t) ==
    /\ pc[t] = "body"
    /\ \E r \in BodyResults :
          /\ allSettings' = r.allSettings
          /\ registered' = r.registered
          /\ file' = r.file
          /\ pc' = [pc EXCEPT ![t] = IF r.outcome = "ok" THEN "return" ELSE "raise"]
    /\ UNCHANGED <<strictControl, last, moduleVars, lockOwner, lockCount>>

(* self.lock.__exit__, reached when the body returns and when it raises. *)
Release(t) ==
    /\ pc[t] \in {"return", "raise"}
    /\ lockCount' = lockCount - 1
    /\ lockOwner' = IF lockCount = 1 THEN NoThread ELSE lockOwner
    /\ pc' = [pc EXCEPT ![t] = "idle"]
    /\ UNCHANGED <<storeVars, last, moduleVars>>

NextThreads ==
    \E t \in Threads :
        \/ CallMethod(t)
        \/ Acquire(t)
        \/ Body(t)
        \/ Release(t)

SpecThreads == Init /\ [][NextThreads]_vars

(***************************************************************************)
(* Helpers of the properties.                                              *)
(***************************************************************************)

(* The dict a valid settings file holds, as json.load returns it. *)
FileDict(f) == JsonLoad(f.text).dict

HoldsDict(f) == f.exists /\ ~JsonLoad(f.text).err /\ JsonLoad(f.text).isdict

(* get(name) in the current state. *)
GetNow(name) == GetResult(allSettings, registered, strictControl, name)

(* get(name) on a new Settings object with the same filename, strictness    *)
(* and registrations, right after its load() (warningOutputRoutine as the   *)
(* module sets it, None).                                                   *)
FreshLoad(f) == LoadResult(f, registered, strictControl, "None", {}, "none")

GetAfterFreshLoad(f, name) ==
    GetResult(FreshLoad(f).allSettings, registered, strictControl, name)

Returns(r, value) == r.outcome = "ok" /\ PyEq(r.ret, value)

(***************************************************************************)
(* C1.  Merge-on-save: when a non-strict store, or a strict store with     *)
(* keep_unregistered=True, saves successfully over a file holding a JSON   *)
(* object with key p and value x, p being absent from allSettings (and     *)
(* unregistered in a strict store), the file afterwards holds p with x     *)
(* together with every key of allSettings with its stored value.           *)
(* Stated as the claim; the code truncates the file before reading it.     *)
(***************************************************************************)
C1_MergeOnSave ==
    [][(/\ last'.op = "save"
        /\ last'.outcome = "ok"
        /\ ~strictControl \/ last'.keep
        /\ HoldsDict(file))
       => \A p \in DOMAIN FileDict(file) :
            (p \notin DOMAIN allSettings /\ (strictControl => p \notin DOMAIN registered))
            => /\ HoldsDict(file')
               /\ p \in DOMAIN FileDict(file')
               /\ FileDict(file')[p] = FileDict(file)[p]
               /\ \A k \in DOMAIN allSettings :
                    /\ k \in DOMAIN FileDict(file')
                    /\ FileDict(file')[k] = allSettings[k]]_vars

(***************************************************************************)
(* C2 (as claimed).  In every reachable state no registered name is in     *)
(* allSettings with a value equal to its registered default.               *)
(***************************************************************************)
C2_NeverStoresDefault ==
    \A name \in DOMAIN registered :
        name \in DOMAIN allSettings => ~PyEq(allSettings[name], registered[name])

(***************************************************************************)
(* C2 (amended).  After every set(name, value) on a registered name that   *)
(* returns, allSettings does not hold name with a value equal to its       *)
(* registered default.                                                     *)
(***************************************************************************)
C2_SetNeverStoresDefault ==
    (last.op = "set" /\ last.outcome = "ok" /\ last.name \in DOMAIN registered)
    => ~(/\ last.name \in DOMAIN allSettings
         /\ PyEq(allSettings[last.name], registered[last.name]))

C2_Witness ==
    /\ last.op = "set"
    /\ last.outcome = "ok"
    /\ last.name \in DOMAIN registered
    /\ PyEq(last.value, registered[last.name])
    /\ last.name \notin DOMAIN allSettings

(***************************************************************************)
(* C3.  set(name, d) with d equal to the registered default of name        *)
(* completes without raising in every reachable state, leaves name absent  *)
(* from allSettings, and get(name) then returns d.                         *)
(* Stated as the claim; `del self.allSettings[name]` raises KeyError when  *)
(* name is absent.                                                         *)
(***************************************************************************)
C3_SetDefaultSucceeds ==
    (/\ last.op = "set"
     /\ last.name \in DOMAIN registered
     /\ PyEq(last.value, registered[last.name]))
    => /\ last.outcome = "ok"
       /\ last.name \notin DOMAIN allSettings
       /\ Returns(GetNow(last.name), last.value)

(***************************************************************************)
(* C4.  resetSetting(name) on a name absent from allSettings (any name in  *)
(* a non-strict store, a registered name in a strict store) raises no      *)
(* error and leaves allSettings and registered unchanged.                  *)
(* Stated as the claim; `del self.allSettings[name]` raises KeyError.      *)
(***************************************************************************)
C4_ResetAbsentIsNoOp ==
    [][(/\ last'.op = "resetSetting"
        /\ last'.name \notin DOMAIN allSettings
        /\ ~strictControl \/ last'.name \in DOMAIN registered)
       => /\ last'.outcome = "ok"
          /\ allSettings' = allSettings
          /\ registered' = registered]_vars

(***************************************************************************)
(* C5 (as claimed).  In a strict store each of get, set and resetSetting   *)
(* on an unregistered name fails with SettingsError and leaves             *)
(* allSettings and registered unchanged.                                   *)
(***************************************************************************)
C5_StrictGatingAll ==
    [][(/\ strictControl
        /\ last'.op \in {"get", "set", "resetSetting"}
        /\ last'.name \notin DOMAIN registered)
       => /\ last'.outcome = "SettingsError"
          /\ allSettings' = allSettings
          /\ registered' = registered]_vars

(***************************************************************************)
(* C5 (amended).  In a strict store set and resetSetting on an             *)
(* unregistered name fail with SettingsError; get on an unregistered name  *)
(* fails with SettingsError when the name is absent from allSettings and   *)
(* returns the stored value when load has put the name in allSettings.     *)
(* All three leave allSettings and registered unchanged.                   *)
(***************************************************************************)
C5_StrictGating ==
    [][(/\ strictControl
        /\ last'.op \in {"get", "set", "resetSetting"}
        /\ last'.name \notin DOMAIN registered)
       => /\ allSettings' = allSettings
          /\ registered' = registered
          /\ IF last'.op = "get" /\ last'.name \in DOMAIN allSettings
             THEN last'.outcome = "ok" /\ last'.ret = allSettings[last'.name]
             ELSE last'.outcome = "SettingsError"]_vars

C5_Witness ==
    /\ strictControl
    /\ last.op = "resetSetting"
    /\ last.outcome = "SettingsError"
    /\ last.name \notin DOMAIN registered
    /\ last.name \in DOMAIN allSettings

(***************************************************************************)
(* C6 (as claimed).  After every register(k, d) that succeeds, get(k)      *)
(* returns d.                                                              *)
(***************************************************************************)
C6_GetAfterRegisterAlways ==
    (last.op = "register" /\ last.outcome = "ok")
    => Returns(GetNow(last.name), last.value)

(***************************************************************************)
(* C6 (amended).  After every register(k, d) that succeeds, get(k)         *)
(* returns d when k is absent from allSettings, and the stored value of k  *)
(* when set or load has put k in allSettings before.                       *)
(***************************************************************************)
C6_GetAfterRegister ==
    (last.op = "register" /\ last.outcome = "ok")
    => IF last.name \in DOMAIN allSettings
       THEN GetNow(last.name) = [outcome |-> "ok", ret |-> allSettings[last.name]]
       ELSE Returns(GetNow(last.name), last.value)

C6_Witness ==
    /\ last.op = "register"
    /\ last.outcome = "ok"
    /\ last.name \notin DOMAIN allSettings
    /\ allSettings # EmptyDict
    /\ GetNow(last.name).ret = last.value

(***************************************************************************)
(* C7.  Registration is append-only.  register(k, d) on an unregistered k  *)
(* records d; with a default equal to the recorded one it changes nothing  *)
(* and raises nothing; with a different default it fails with              *)
(* SettingsError and leaves registered unchanged.  No operation changes    *)
(* the default of a registered name or unregisters a name.                 *)
(***************************************************************************)
C7_RegistrationAppendOnly ==
    [][/\ \A k \in DOMAIN registered :
            k \in DOMAIN registered' /\ registered'[k] = registered[k]
       /\ last'.op # "register" => registered' = registered
       /\ last'.op = "register" =>
            IF last'.name \notin DOMAIN registered
            THEN /\ last'.outcome = "ok"
                 /\ registered' = With(registered, last'.name, last'.value)
            ELSE IF PyEq(registered[last'.name], last'.value)
            THEN last'.outcome = "ok" /\ registered' = registered
            ELSE last'.outcome = "SettingsError" /\ registered' = registered]_vars

C7_Witness ==
    /\ last.op = "register"
    /\ last.outcome = "SettingsError"
    /\ last.name \in DOMAIN registered
    /\ ~PyEq(registered[last.name], last.value)

(***************************************************************************)
(* C8.  Reset-to-default scenario, on a store that holds no stored value   *)
(* for k when the scenario starts.  After register(k, d), get(k) returns   *)
(* d.  A set(k, v) of a registered k with v different from its default d   *)
(* returns, puts k in allSettings and makes get(k) return v.  A            *)
(* resetSetting(k), or a set(k, d), issued right after that set returns,   *)
(* removes k from allSettings and makes get(k) return d again.             *)
(***************************************************************************)
C8_ResetToDefault ==
    [][LET k == last'.name
           getAfter == GetResult(allSettings', registered', strictControl', k)
       IN  /\ (/\ last'.op = "register"
               /\ last'.outcome = "ok"
               /\ k \notin DOMAIN allSettings)
              => Returns(getAfter, last'.value)
           /\ (/\ last'.op = "set"
               /\ k \in DOMAIN registered
               /\ ~PyEq(last'.value, registered[k]))
              => /\ last'.outcome = "ok"
                 /\ k \in DOMAIN allSettings'
                 /\ Returns(getAfter, last'.value)
           /\ (/\ last.op = "set"
               /\ last.outcome = "ok"
               /\ last.name = k
               /\ k \in DOMAIN registered
               /\ ~PyEq(last.value, registered[k])
               /\ \/ last'.op = "resetSetting"
                  \/ last'.op = "set" /\ PyEq(last'.value, registered[k]))
              => /\ last'.outcome = "ok"
                 /\ k \notin DOMAIN allSettings'
                 /\ Returns(getAfter, registered[k])]_vars

C8_Witness ==
    /\ last.op = "resetSetting"
    /\ last.outcome = "ok"
    /\ last.name \in DOMAIN registered
    /\ last.name \notin DOMAIN allSettings
    /\ GetNow(last.name) = [outcome |-> "ok", ret |-> registered[last.name]]

(***************************************************************************)
(* C9.  Round trip.  After a save() that succeeds, load() on a new store   *)
(* with the same filename, strictness and registrations succeeds, and      *)
(* get(k) on it gives, for every name k, what get(k) gave on the saving    *)
(* store just before the save (the value set, the default, or the same     *)
(* failure).                                                               *)
(***************************************************************************)
C9_RoundTrip ==
    [][(last'.op = "save" /\ last'.outcome = "ok")
       => /\ FreshLoad(file').outcome = "ok"
          /\ \A k \in Names : GetAfterFreshLoad(file', k) = GetNow(k)]_vars

C9_Witness ==
    /\ last.op = "save"
    /\ last.outcome = "ok"
    /\ \E k \in DOMAIN allSettings : k \in DOMAIN registered
    /\ \E k \in DOMAIN allSettings : allSettings[k] = "None"
    /\ FreshLoad(file).allSettings = allSettings

(***************************************************************************)
(* C10.  Save idempotence.  A save() that succeeds right after a save()    *)
(* that succeeded, with no operation in between, leaves the file with the  *)
(* contents the first one gave it, whatever keep_unregistered is in either *)
(* call and whatever the file held before the first.                      *)
(***************************************************************************)
C10_SaveIdempotent ==
    [][(/\ last.op = "save"
        /\ last.outcome = "ok"
        /\ last'.op = "save"
        /\ last'.outcome = "ok")
       => file' = file]_vars

C10_Witness ==
    /\ last.op = "save"
    /\ last.outcome = "ok"
    /\ last.nth = 2
    /\ allSettings # EmptyDict
    /\ file = FileOf(<<JsonDump(allSettings)>>)

(***************************************************************************)
(* C11.  A save() that fails with SettingsError leaves allSettings and     *)
(* registered unchanged and leaves the file with the contents it had       *)
(* before the call.                                                        *)
(* Stated as the claim; the file is truncated when it is opened, before    *)
(* anything that can fail while writing.                                   *)
(***************************************************************************)
C11_FailedSaveChangesNothing ==
    [][(last'.op = "save" /\ last'.outcome = "SettingsError")
       => /\ allSettings' = allSettings
          /\ registered' = registered
          /\ file' = file]_vars

C13_ResetKeepsUnregistered ==
    [][(last'.op = "reset" /\ last'.outcome = "ok")
       => \A k \in (DOMAIN allSettings) \ (DOMAIN registered) :
            /\ k \in DOMAIN allSettings'
            /\ allSettings'[k] = allSettings[k]]_vars

(***************************************************************************)
(* C14.  Whenever load() fails with SettingsError, allSettings is empty    *)
(* afterwards, registered is unchanged, and get of a registered name       *)
(* returns its default.                                                    *)
(* Stated as the claim; a warningOutputRoutine that raises ends the loop   *)
(* of load after some keys have been stored.                               *)
(***************************************************************************)
C14_FailedLoadLeavesEmpty ==
    [][(last'.op = "load" /\ last'.outcome = "SettingsError")
       => /\ allSettings' = EmptyDict
          /\ registered' = registered
          /\ \A k \in DOMAIN registered :
                GetResult(allSettings', registered', strictControl', k)
                    = [outcome |-> "ok", ret |-> registered[k]]]_vars

(***************************************************************************)
(* C17.  After a load() that returns, allSettings is exactly the mapping   *)
(* the file holds (empty when the file is missing or zero-length),         *)
(* whatever it held before; in a strict store the keys that are not        *)
(* registered are in it too; registered is unchanged.                      *)
(***************************************************************************)
C17_LoadReplacesStored ==
    [][(last'.op = "load" /\ last'.outcome = "ok")
       => /\ allSettings' = IF file.exists /\ Len(file.text) # 0
                            THEN FileDict(file) ELSE EmptyDict
          /\ file.exists /\ Len(file.text) # 0 => HoldsDict(file)
          /\ registered' = registered]_vars

C17_Witness ==
    /\ last.op = "load"
    /\ last.outcome = "ok"
    /\ strictControl
    /\ registered # EmptyDict
    /\ \E k \in DOMAIN allSettings : k \notin DOMAIN registered
    /\ HoldsDict(file)
    /\ allSettings = FileDict(file)

(***************************************************************************)
(* C18.  After a save() that returns, the file is a JSON object holding    *)
(* every key of allSettings with its stored value, registered or not; for  *)
(* a strict store with keep_unregistered=False, and for any store when the *)
(* file was missing, empty or malformed before, the file holds exactly     *)
(* the mapping of allSettings.  A save over a missing, empty or malformed  *)
(* file returns when no file-system call fails.                            *)
(***************************************************************************)
C18_SaveWritesStored ==
    [][/\ (last'.op = "save" /\ last'.outcome = "ok")
          => /\ HoldsDict(file')
             /\ \A k \in DOMAIN allSettings :
                    /\ k \in DOMAIN FileDict(file')
                    /\ FileDict(file')[k] = allSettings[k]
             /\ ((strictControl /\ ~last'.keep) \/ ~HoldsDict(file))
                => FileDict(file') = allSettings
       /\ ~HoldsDict(file)
          => \A keep \in BOOLEAN :
                SaveResult(file, allSettings, registered, strictControl, keep, "none").outcome
                    = "ok"]_vars

C18_Witness ==
    /\ last.op = "save"
    /\ last.outcome = "ok"
    /\ strictControl
    /\ ~last.keep
    /\ \E k \in DOMAIN allSettings : k \notin DOMAIN registered
    /\ \E k \in DOMAIN allSettings : allSettings[k] = "None"
    /\ FileDict(file) = allSettings

(***************************************************************************)
(* C19.  reset() ends by returning or by raising SettingsError: when the   *)
(* removal of the file fails, no other kind of error reaches the caller.   *)
(* Stated as the claim; reset has no try block and os.remove's OSError     *)
(* reaches the caller.                                                     *)
(***************************************************************************)
C19_ResetRaisesOnlySettingsError ==
    last.op = "reset" => last.outcome \in {"ok", "SettingsError"}

(***************************************************************************)
(* C20.  save() never changes the state in memory: allSettings and         *)
(* registered are after save() what they were before it, whether it        *)
(* returns or raises, whatever the file held, for either strictness and    *)
(* either value of keep_unregistered.                                      *)
(***************************************************************************)
C20_SaveKeepsMemory ==
    [][last'.op = "save"
       => /\ allSettings' = allSettings
          /\ registered' = registered]_vars

C20_Witness ==
    /\ last.op = "save"
    /\ last.outcome = "ok"
    /\ last.keep
    /\ last.nth = 1
    /\ allSettings # EmptyDict
    /\ registered # EmptyDict
    /\ HoldsDict(file)
    /\ DOMAIN FileDict(file) = DOMAIN allSettings

(***************************************************************************)
(* C15 (as claimed).  globalSettings() and globalQuickSettings() each      *)
(* return the same instance on every call (strict and non-strict), and     *)
(* once an instance is constructed no later change of                      *)
(* defaultSettingsFilename, defaultQuickSettingsFilename or                *)
(* defaultSettingsDirectory changes the path it loads from and saves to.   *)
(***************************************************************************)
C15_SingletonsKeepPath ==
    [][/\ last'.op = "globalSettings"
          => /\ last'.ret = _globalSettings'.id
             /\ _globalSettings'.strict
       /\ last'.op = "globalQuickSettings"
          => /\ last'.ret = _globalQuickSettings'.id
             /\ ~_globalQuickSettings'.strict
       /\ \A obj \in {_globalSettings, _globalQuickSettings} \ {NoObject} :
            /\ obj \in {_globalSettings', _globalQuickSettings'}
            /\ FilenameOf(obj.filename, defaultSettingsDirectory')
                 = FilenameOf(obj.filename, defaultSettingsDirectory)
       /\ _globalSettings # NoObject => _globalSettings' = _globalSettings
       /\ _globalQuickSettings # NoObject
          => _globalQuickSettings' = _globalQuickSettings]_vars

(***************************************************************************)
(* C15 (amended).  globalSettings() and globalQuickSettings() each return  *)
(* the same instance on every call (strict and non-strict), and the file   *)
(* name an instance was constructed with never changes, whatever is        *)
(* assigned to defaultSettingsFilename or defaultQuickSettingsFilename     *)
(* later.  The path of an instance with an absolute file name never        *)
(* changes; the path of an instance with a relative file name is that name *)
(* under the current defaultSettingsDirectory, so it follows a later       *)
(* change of the directory.                                                *)
(***************************************************************************)
C15_SingletonsStable ==
    [][/\ last'.op = "globalSettings"
          => /\ last'.ret = _globalSettings'.id
             /\ _globalSettings'.strict
       /\ last'.op = "globalQuickSettings"
          => /\ last'.ret = _globalQuickSettings'.id
             /\ ~_globalQuickSettings'.strict
       /\ _globalSettings # NoObject => _globalSettings' = _globalSettings
       /\ _globalQuickSettings # NoObject
          => _globalQuickSettings' = _globalQuickSettings
       /\ \A obj \in {_globalSettings, _globalQuickSettings} \ {NoObject} :
            LET before == FilenameOf(obj.filename, defaultSettingsDirectory)
                after == FilenameOf(obj.filename, defaultSettingsDirectory')
            IN  /\ after.name = before.name
                /\ IsAbs(obj.filename) => after = before
                /\ defaultSettingsDirectory' = defaultSettingsDirectory => after = before
                /\ ~IsAbs(obj.filename) => after.dir = defaultSettingsDirectory']_vars

C15_Witness ==
    /\ last.op = "globalSettings"
    /\ last.ret = _globalSettings.id
    /\ _globalQuickSettings # NoObject
    /\ ~IsAbs(_globalSettings.filename)
    /\ defaultSettingsFilename # _globalSettings.filename
    /\ defaultSettingsDirectory # EmptyPath
    /\ created = 2

(***************************************************************************)
(* C16.  With several threads calling the methods of one store, at most    *)
(* one thread is inside a method body at any time, and that thread is the  *)
(* owner of the lock; the lock is held exactly while its owner is between  *)
(* acquiring it and leaving the body, by return or by exception, so that   *)
(* when no thread is inside a body the lock is free and a waiting thread   *)
(* can take it.  No method calls another while holding the lock, so the    *)
(* lock is never held more than once.                                      *)
(***************************************************************************)
InBody(t) == pc[t] \in {"body", "return", "raise"}

C16_LockSerializes ==
    /\ \A t, u \in Threads : (InBody(t) /\ InBody(u)) => t = u
    /\ \A t \in Threads : InBody(t) <=> lockOwner = t
    /\ lockOwner = NoThread <=> lockCount = 0
    /\ lockCount <= 1
    /\ (\A u \in Threads : ~InBody(u))
       => \A t \in Threads : pc[t] = "call" => LockAvailable(t)

C16_Witness ==
    \E t, u \in Threads :
        /\ t # u
        /\ pc[t] = "raise"
        /\ pc[u] = "call"
        /\ lockOwner = t
        /\ allSettings # EmptyDict

====
